---- MODULE Spec2Model ----
(***************************************************************************)
(* A model of pyxet's core.py: the copy / move / delete orchestration over *)
(* fsspec-style backends (local "file" and the transactional "xet").       *)
(*                                                                         *)
(* Strings are sequences of tokens.  The tokens "/", "*" and ":" are the   *)
(* single characters the code inspects; every other token stands for a run *)
(* of ordinary characters (a file name, a protocol tag, "." or "..").      *)
(***************************************************************************)
EXTENDS Integers, Sequences, FiniteSets, TLC

VARIABLES
    op,        \* the invoked operation and its arguments (fixed after Init)
    findDirs,  \* whether the backend's find() also lists directory entries
    pc,        \* position of the calling thread
    ret,       \* what a direct call of _ltrim_match gave back
    idx,       \* loop index of _rm's "for path in paths"
    txn,       \* state of the xet handle's transaction: "Idle" / "Active"
    begins,    \* number of start_transaction calls that have come back
    ends,      \* number of end_transaction calls that have come back
    calls,     \* set of backend calls issued so far
    reported,  \* set of messages printed so far
    tasks,     \* the _copy frames and _single_file_copy items, in creation order
    sem        \* available permits of each semaphore

vars == <<op, findDirs, pc, ret, idx, txn, begins, ends, calls, reported, tasks, sem>>

----------------------------------------------------------------------------
(* Bounds of the model *)

\* capacity of each semaphore (MAX_CONCURRENT_COPIES lives in config.py)
PermitCap == 1
\* os.cpu_count() of the host
CpuCount == 1
\* longest list of paths handed to _rm
MaxPaths == 2
\* longest string handed to _ltrim_match directly
MaxTrimLen == 3

----------------------------------------------------------------------------
(* Python string primitives over token sequences *)

RECURSIVE SplitAcc(_, _, _)
SplitAcc(s, cur, acc) ==
    IF s = <<>> THEN Append(acc, cur)
    ELSE IF Head(s) = "/" THEN SplitAcc(Tail(s), <<>>, Append(acc, cur))
    ELSE SplitAcc(Tail(s), Append(cur, Head(s)), acc)

\* s.split('/')
Split(s) == SplitAcc(s, <<>>, <<>>)

RECURSIVE Join(_)
\* '/'.join(segs)
Join(segs) ==
    IF Len(segs) = 0 THEN <<>>
    ELSE IF Len(segs) = 1 THEN segs[1]
    ELSE segs[1] \o <<"/">> \o Join(Tail(segs))

\* s.split('/')[-1]
LastSeg(s) == Split(s)[Len(Split(s))]

\* '/'.join(s.split('/')[:-1])
DirName(s) == Join(SubSeq(Split(s), 1, Len(Split(s)) - 1))

RECURSIVE RStrip(_)
\* s.rstrip('/')
RStrip(s) ==
    IF s # <<>> /\ s[Len(s)] = "/" THEN RStrip(SubSeq(s, 1, Len(s) - 1)) ELSE s

RECURSIVE LStrip(_)
\* s.lstrip('/')
LStrip(s) == IF s # <<>> /\ Head(s) = "/" THEN LStrip(Tail(s)) ELSE s

\* '*' in s
HasStar(s) == \E i \in 1..Len(s) : s[i] = "*"

\* s.endswith('/')
EndsWithSlash(s) == s # <<>> /\ s[Len(s)] = "/"

\* s.find('://'): the first index of the separator, 0 when absent
FindSep(s) ==
    LET hits == {i \in 1..(Len(s) - 2) : s[i] = ":" /\ s[i+1] = "/" /\ s[i+2] = "/"}
    IN  IF hits = {} THEN 0 ELSE CHOOSE i \in hits : \A j \in hits : i <= j

\* s.split('://')[1]: what lies between the first separator and the next
SecondPart(s) ==
    LET rest == SubSeq(s, FindSep(s) + 3, Len(s))
    IN  IF FindSep(rest) = 0 THEN rest ELSE SubSeq(rest, 1, FindSep(rest) - 1)

\* os.getcwd(): the working directory of the process
Cwd == <<"/", "d">>

\* posixpath.join(a, b)
PathJoin(a, b) ==
    IF b # <<>> /\ Head(b) = "/" THEN b
    ELSE IF a = <<>> \/ EndsWithSlash(a) THEN a \o b
    ELSE a \o <<"/">> \o b

RECURSIVE NormComps(_, _, _)
\* the loop of posixpath.normpath over path.split('/'): empty and "."
\* components go, ".." takes the component before it away
NormComps(comps, new, slashes) ==
    IF comps = <<>> THEN new
    ELSE IF Head(comps) = <<>> \/ Head(comps) = <<".">>
    THEN NormComps(Tail(comps), new, slashes)
    ELSE IF \/ Head(comps) # <<"..">>
            \/ (slashes = 0 /\ new = <<>>)
            \/ (new # <<>> /\ new[Len(new)] = <<"..">>)
    THEN NormComps(Tail(comps), Append(new, Head(comps)), slashes)
    ELSE IF new # <<>>
    THEN NormComps(Tail(comps), SubSeq(new, 1, Len(new) - 1), slashes)
    ELSE NormComps(Tail(comps), new, slashes)

\* posixpath.normpath: exactly two leading slashes are kept, three or more
\* become one
NormPath(path) ==
    IF path = <<>> THEN <<".">>
    ELSE LET slashes == IF Head(path) # "/" THEN 0
                        ELSE IF /\ Len(path) >= 2 /\ path[2] = "/"
                                /\ ~(Len(path) >= 3 /\ path[3] = "/")
                        THEN 2 ELSE 1
             out == [i \in 1..slashes |-> "/"] \o Join(NormComps(Split(path), <<>>, slashes))
         IN  IF out = <<>> THEN <<".">> ELSE out

\* os.path.abspath: a relative path is joined to the working directory, then
\* normpath
AbsPath(p) ==
    NormPath(IF p # <<>> /\ Head(p) = "/" THEN p ELSE PathJoin(Cwd, p))

\* the failure of _ltrim_match
PathMismatch == <<"!PathMismatch">>

\* _ltrim_match without the comparison at line 28
_ltrim_match_NoCompare(s, match) ==
    IF Len(s) < Len(match) THEN PathMismatch
    ELSE SubSeq(s, Len(match) + 1, Len(s))

_ltrim_match(s, match) ==
    IF Len(s) < Len(match) THEN PathMismatch
    ELSE IF SubSeq(s, 1, Len(match)) # match THEN PathMismatch
    ELSE SubSeq(s, Len(match) + 1, Len(s))

\* the protocols of the two backends of the model
XetProto == <<"xet">>
FileProto == <<"file">>

\* a handle is named by its protocol: split[0], all that stands before the
\* first separator
_get_fs_and_path(uri) ==
    LET i == FindSep(uri)
    IN  IF i = 0 THEN [fs |-> FileProto, path |-> AbsPath(uri), printed |-> {}]
        ELSE [fs |-> SubSeq(uri, 1, i - 1), path |-> SecondPart(uri),
              printed |-> IF FindSep(SubSeq(uri, i + 3, Len(uri))) # 0
                          THEN {[msg |-> "Invalid URL", path |-> uri]} ELSE {}]

\* url_parsing.parse_url: user/repo/branch/path of a xet URI or path
parse_url(url) ==
    LET p    == IF FindSep(url) = 0 THEN url
                ELSE SubSeq(url, FindSep(url) + 3, Len(url))
        segs == Split(RStrip(p))
    IN  [branch |-> IF Len(segs) >= 3 THEN segs[3] ELSE <<>>,
         path   |-> IF Len(segs) >= 4 THEN Join(SubSeq(segs, 4, Len(segs))) ELSE <<>>]

----------------------------------------------------------------------------
(* The two backends hold the same small tree under their own root *)

XetScheme == <<"xet", ":", "/", "/">>
XetRoot == <<"u", "/", "r", "/", "b">>

\* names of sibling directories
WideNames == {"p1", "p2", "p3", "p4", "p5", "p6"}

\* w/{.gitattributes, p1 .. p5}, the p's empty directories: one entry more
\* than a pool of five has workers
WideEntries ==
    { [rel |-> <<"/", "w">>, type |-> "directory", size |-> 0],
      [rel |-> <<"/", "w", "/", ".gitattributes">>, type |-> "file", size |-> 10] }
    \cup { [rel |-> <<"/", "w", "/", n>>, type |-> "directory", size |-> 0] :
              n \in WideNames \ {"p6"} }

\* v/k/{p1 .. p6}/.gitattributes: six files below the only entry of v
DeepEntries ==
    { [rel |-> <<"/", "v">>, type |-> "directory", size |-> 0],
      [rel |-> <<"/", "v", "/", "k">>, type |-> "directory", size |-> 0] }
    \cup { [rel |-> <<"/", "v", "/", "k", "/", n>>, type |-> "directory", size |-> 0] :
              n \in WideNames }
    \cup { [rel |-> <<"/", "v", "/", "k", "/", n, "/", ".gitattributes">>,
            type |-> "file", size |-> 10] : n \in WideNames }

\* relative tree: a/{x, .gitattributes, s/{y}} and d/{e}, e an empty file,
\* and the two wide trees
RelEntries ==
    WideEntries \cup DeepEntries \cup
    { [rel |-> <<"/", "a">>, type |-> "directory", size |-> 0],
      [rel |-> <<"/", "a", "/", "x">>, type |-> "file", size |-> 49999999],
      [rel |-> <<"/", "a", "/", ".gitattributes">>, type |-> "file", size |-> 10],
      [rel |-> <<"/", "a", "/", "s">>, type |-> "directory", size |-> 0],
      [rel |-> <<"/", "a", "/", "s", "/", "y">>, type |-> "file", size |-> 50000000],
      [rel |-> <<"/", "d">>, type |-> "directory", size |-> 0],
      [rel |-> <<"/", "d", "/", "e">>, type |-> "file", size |-> 0] }

RootOf(fs) == IF fs = XetProto THEN XetRoot ELSE <<>>

Entries(fs) ==
    { [path |-> RootOf(fs) \o e.rel, type |-> e.type, size |-> e.size] : e \in RelEntries }


\* is there a directory at path (isdir; a xet branch root counts as one)
IsDirWorld(fs, path) ==
    \/ \E e \in Entries(fs) : e.path = path /\ e.type = "directory"
    \/ fs = XetProto /\ path = XetRoot

\* src_fs.glob(pattern, detail=True): the entries of the pattern's directory
\* that a final segment "*" matches
GlobWorld(fs, pattern) ==
    IF LastSeg(pattern) = <<"*">>
    THEN {e \in Entries(fs) : DirName(e.path) = DirName(pattern)}
    ELSE {e \in Entries(fs) : e.path = pattern}

\* src_fs.find(path, detail=True): every descendant, directories only when
\* the backend lists them
FindWorld(fs, path, withdirs) ==
    {e \in Entries(fs) :
        /\ Len(e.path) > Len(path) + 1
        /\ SubSeq(e.path, 1, Len(path) + 1) = path \o <<"/">>
        /\ (e.type = "file" \/ withdirs)}

\* position of a token in the order the backends list names (sorted)
Rank(c) ==
    CASE c = "/" -> 0 [] c = ".gitattributes" -> 1 [] c = "a" -> 2 [] c = "b" -> 3
      [] c = "d" -> 4 [] c = "e" -> 5 [] c = "k" -> 6 [] c = "p1" -> 7 [] c = "p2" -> 8
      [] c = "p3" -> 9 [] c = "p4" -> 10 [] c = "p5" -> 11 [] c = "p6" -> 12
      [] c = "r" -> 13 [] c = "s" -> 14 [] c = "u" -> 15 [] c = "v" -> 16
      [] c = "w" -> 17 [] c = "x" -> 18 [] OTHER -> 19

RECURSIVE PathLess(_, _)
PathLess(a, b) ==
    IF a = <<>> THEN b # <<>>
    ELSE IF b = <<>> THEN FALSE
    ELSE IF Head(a) = Head(b) THEN PathLess(Tail(a), Tail(b))
    ELSE Rank(Head(a)) < Rank(Head(b))

\* the mapping's items() in listing order: the entry at position i has
\* i - 1 entries before it
Sorted(S) ==
    [i \in 1..Cardinality(S) |->
        CHOOSE e \in S : Cardinality({o \in S : PathLess(o.path, e.path)}) = i - 1]

\* info.get('size', None); None is -1
None == 0 - 1

SizeWorld(fs, path) ==
    IF \E e \in Entries(fs) : e.path = path
    THEN (CHOOSE e \in Entries(fs) : e.path = path).size
    ELSE None

\* the large-object threshold of _single_file_copy
DedupThreshold == 50000000

\* ThreadPoolExecutor() without max_workers: min(32, cpu_count + 4) threads
PoolSize == IF CpuCount + 4 < 32 THEN CpuCount + 4 ELSE 32

\* fs.get_username() and fs.domain of the xet handle
Username == <<"u">>
Domain == <<"xethub.com">>

----------------------------------------------------------------------------
(* The operations the caller may invoke *)

Local(rel) == rel
Xet(rel) == XetScheme \o XetRoot \o rel

MvSources ==
    { Local(<<"/", "a", "/", "x">>), Xet(<<"/", "a", "/", "x">>),
      <<"a", "/", "b", ":", "/", "/", "x">> }
MvTargets ==
    { Local(<<"/", "d", "/", "x">>), Xet(<<"/", "d", "/", "x">>),
      <<"a", "/", "c", ":", "/", "/", "y">> }

RmChoices ==
    { Xet(<<>>), Xet(<<"/", "a", "/", "x">>), Xet(<<"/", "a", "/", "s", "/", "y">>),
      Local(<<"/", "a", "/", "x">>) }

RmLists == UNION { [1..n -> RmChoices] : n \in 1..MaxPaths }

CpSources ==
    { Local(<<"/", "a", "/", "x">>), Local(<<"/", "a">>), Local(<<"/", "a", "/", "*">>),
      Local(<<"/", "*", "/", "x">>), Local(<<"/", "a", "/">>),
      Local(<<"/", "a", "/", "s", "/", "y">>), Local(<<"/", "d", "/", "e">>),
      Xet(<<"/", "a", "/", "x">>), Xet(<<"/", "a">>), Xet(<<"/", "a", "/", "*">>),
      Xet(<<"/", "*", "/", "x">>) }
CpTargets ==
    { Local(<<"/", "d">>), Local(<<"/", "n">>), Local(<<"/", "n", "/", ".gitattributes">>),
      Xet(<<"/", "d">>), Xet(<<"/", "n">>) }

Pools == {"global", "own"}

MvOps ==
    { [name |-> "mv", source |-> s, target |-> t, recursive |-> r, paths |-> <<>>,
       pool |-> "global"] : s \in MvSources, t \in MvTargets, r \in BOOLEAN }
RmOps ==
    { [name |-> "rm", source |-> <<>>, target |-> <<>>, recursive |-> FALSE, paths |-> ps,
       pool |-> "global"] : ps \in RmLists }
\* copies that are handed a semaphore of the caller's own
OwnPoolSources == { Local(<<"/", "a", "/", "x">>), Local(<<"/", "a">>) }
OwnPoolTargets == { Local(<<"/", "n">>), Xet(<<"/", "n">>) }

CpOps ==
    { [name |-> "cp", source |-> s, target |-> t, recursive |-> r, paths |-> <<>>,
       pool |-> "global"] : s \in CpSources, t \in CpTargets, r \in BOOLEAN }
    \cup
    { [name |-> "cp", source |-> s, target |-> t, recursive |-> r, paths |-> <<>>,
       pool |-> "own"] : s \in OwnPoolSources, t \in OwnPoolTargets, r \in BOOLEAN }

\* strings for a direct call _ltrim_match(s, match): s is source, match is target
TrimStrings == UNION { [1..n -> {"a", "b", "/"}] : n \in 0..MaxTrimLen }
TrimOps ==
    { [name |-> "trim", source |-> s, target |-> m, recursive |-> FALSE, paths |-> <<>>,
       pool |-> "global"] : s \in TrimStrings, m \in TrimStrings }

\* addresses handed to _info: plain, relative, unnormalised, remote, one with a
\* second separator, and two whose protocol part is empty or holds a slash
InfoUris ==
    { Local(<<"/", "a", "/", "x">>), Local(<<"x">>), Local(<<"..", "/", "a", "/", "x">>),
      Local(<<"/", "a", "/", "/", "s", "/", ".", "/", "y">>), Local(<<>>),
      Xet(<<"/", "a", "/", "x">>), Xet(<<"/", "n">>),
      Xet(<<"/", "a", "/", "x", ":", "/", "/", "z">>),
      <<":", "/", "/", "x">>, <<"/", "a", ":", "/", "/", "x">> }
InfoOps ==
    { [name |-> "info", source |-> s, target |-> <<>>, recursive |-> FALSE, paths |-> <<>>,
       pool |-> "global"] : s \in InfoUris }

\* _duplicate: dest is the given address, or None (hasDest false)
DupSources == { XetScheme \o <<"u", "/", "r">>, XetScheme \o <<"u", "/", "r", "/">> }
DupOps ==
    { [name |-> "dup", source |-> s, target |-> XetScheme \o <<"u", "/", "r2">>,
       hasDest |-> h, private |-> pr, public |-> pu, verbose |-> v,
       recursive |-> FALSE, paths |-> <<>>, pool |-> "global"] :
       s \in DupSources, h \in BOOLEAN, pr \in BOOLEAN, pu \in BOOLEAN, v \in BOOLEAN }

Ops == MvOps \cup RmOps \cup CpOps \cup TrimOps \cup InfoOps \cup DupOps

\* the copies whose termination is checked: glob and single-file copies to
\* xet, a glob from xet to xet, and the two wide trees, where one executor
\* is handed more items than it has workers
LiveCpOps ==
    { [name |-> "cp", source |-> st[1], target |-> st[2], recursive |-> TRUE,
       paths |-> <<>>, pool |-> "global"] :
      st \in { <<Local(<<"/", "a", "/", "*">>), Xet(<<"/", "n">>)>>,
               <<Local(<<"/", "a", "/", "x">>), Xet(<<"/", "n">>)>>,
               <<Xet(<<"/", "a", "/", "*">>), Xet(<<"/", "n">>)>>,
               <<Local(<<"/", "w", "/", "*">>), Local(<<"/", "n">>)>>,
               <<Local(<<"/", "v", "/", "*">>), Local(<<"/", "n">>)>> } }

LiveOps == (Ops \ CpOps) \cup LiveCpOps

\* a printed message and the path it names
Msg(m, path) == [msg |-> m, path |-> path]

\* a backend call as it is recorded: with the transaction counters at the call
Call(o, fs, path, to) ==
    [op |-> o, fs |-> fs, path |-> path, to |-> to, begins |-> begins, ends |-> ends]

Init ==
    /\ op \in Ops
    /\ findDirs \in (IF /\ op.name = "cp" /\ op.pool = "global"
                         /\ op.source = Local(<<"/", "a">>) /\ op.target = Local(<<"/", "n">>)
                     THEN BOOLEAN ELSE {FALSE})
    /\ pc = op.name
    /\ ret = <<>>
    /\ idx = 1
    /\ txn = "Idle"
    /\ begins = 0
    /\ ends = 0
    /\ calls = {}
    /\ reported = {}
    /\ tasks = <<>>
    /\ sem = [p \in Pools |-> PermitCap]

LiveInit ==
    /\ op \in LiveOps
    /\ findDirs = FALSE
    /\ pc = op.name
    /\ ret = <<>>
    /\ idx = 1
    /\ txn = "Idle"
    /\ begins = 0
    /\ ends = 0
    /\ calls = {}
    /\ reported = {}
    /\ tasks = <<>>
    /\ sem = [p \in Pools |-> PermitCap]

----------------------------------------------------------------------------
(* _ltrim_match, called on its own *)

Trim ==
    /\ pc = "trim"
    /\ ret' = _ltrim_match(op.source, op.target)
    /\ pc' = "returned"
    /\ UNCHANGED <<op, findDirs, idx, txn, begins, ends, calls, reported, tasks, sem>>

----------------------------------------------------------------------------
(* _info *)

\* lines 281-283: resolve the address, ask the backend; a missing path raises
Info ==
    /\ pc = "info"
    /\ LET r == _get_fs_and_path(op.source)
           found == {e \in Entries(r.fs) : e.path = r.path}
       IN  /\ reported' = reported \cup r.printed
           /\ calls' = calls \cup {Call("info", r.fs, r.path, <<>>)}
           /\ \/ /\ found # {}
                 /\ ret' = [name |-> r.path, type |-> (CHOOSE e \in found : TRUE).type,
                            size |-> (CHOOSE e \in found : TRUE).size]
                 /\ pc' = "returned"
              \/ /\ pc' = "raised"
                 /\ UNCHANGED ret
    /\ UNCHANGED <<op, findDirs, idx, txn, begins, ends, tasks, sem>>

----------------------------------------------------------------------------
(* _duplicate *)

\* source.rstrip('/').split('/')[-1]
RepoName(source) == LastSeg(RStrip(source))

\* the destination _duplicate works on: the given one, or the user's own copy
DupDest == IF op.hasDest THEN op.target
           ELSE XetScheme \o Username \o <<"/">> \o RepoName(op.source)

\* lines 292-298: settle the destination; get_username when none was given
DupStart ==
    /\ pc = "dup"
    /\ IF op.hasDest
       THEN /\ pc' = "dup_repo"
            /\ UNCHANGED <<calls, reported>>
       ELSE /\ calls' = calls \cup {Call("get_username", XetProto, <<>>, <<>>)}
            /\ \/ /\ pc' = "dup_repo"
                  /\ reported' = IF op.verbose
                                 THEN reported \cup {Msg("Duplicating to", DupDest)}
                                 ELSE reported
               \/ /\ pc' = "raised"
                  /\ UNCHANGED reported
    /\ UNCHANGED <<op, ret, findDirs, idx, txn, begins, ends, tasks, sem>>

\* line 299: duplicate_repo, outside the try
DupRepo ==
    /\ pc = "dup_repo"
    /\ calls' = calls \cup {Call("duplicate_repo", XetProto, op.source, DupDest)}
    /\ \/ pc' = "dup_private"
       \/ pc' = "raised"
    /\ UNCHANGED <<op, ret, findDirs, idx, txn, begins, ends, reported, tasks, sem>>

\* lines 301-306 (attr "private", value True) and 307-312 ("public", False):
\* one permission change, with its two messages when verbose
DupSetAttr(wanted, attr, value, nextpc) ==
    IF ~wanted
    THEN /\ pc' = nextpc
         /\ UNCHANGED <<calls, reported>>
    ELSE /\ calls' = calls \cup {Call("set_repo_attr", XetProto, DupDest, <<attr, value>>)}
         /\ \/ /\ pc' = nextpc
               /\ reported' = IF op.verbose
                              THEN reported \cup
                                     {Msg("Duplicate Success. Changing permissions...", <<>>),
                                      Msg("Repo permissions set successfully", <<>>)}
                              ELSE reported
            \/ /\ pc' = "dup_except"
               /\ reported' = IF op.verbose
                              THEN reported \cup
                                     {Msg("Duplicate Success. Changing permissions...", <<>>)}
                              ELSE reported

DupPrivate ==
    /\ pc = "dup_private"
    /\ DupSetAttr(op.private, "private", "True", "dup_public")
    /\ UNCHANGED <<op, ret, findDirs, idx, txn, begins, ends, tasks, sem>>

DupPublic ==
    /\ pc = "dup_public"
    /\ DupSetAttr(op.public, "public", "False", "returned")
    /\ UNCHANGED <<op, ret, findDirs, idx, txn, begins, ends, tasks, sem>>

\* lines 313-318: the failure is absorbed; get_username, then the advice
DupExcept ==
    /\ pc = "dup_except"
    /\ calls' = calls \cup {Call("get_username", XetProto, <<>>, <<>>)}
    /\ \/ /\ pc' = "returned"
          /\ reported' =
                IF op.verbose
                THEN reported \cup
                       {Msg("An error has occurred setting repository permissions", <<>>),
                        Msg("Permission changes may not have been made. Please change it manually at:", <<>>),
                        Msg("settings", Domain \o <<"/">> \o Username \o <<"/">>
                                          \o RepoName(op.source) \o <<"/", "settings">>)}
                ELSE reported
       \/ /\ pc' = "raised"
          /\ UNCHANGED reported
    /\ UNCHANGED <<op, ret, findDirs, idx, txn, begins, ends, tasks, sem>>

----------------------------------------------------------------------------
(* _mv *)

\* what the handle's transaction may be after an end_transaction that raised:
\* the backend decides
AfterFailedEnd == {"Active", "Idle"}

\* lines 239-245: resolve both ends; differing protocols are only printed
MvResolve ==
    /\ pc = "mv"
    /\ LET s == _get_fs_and_path(op.source)
           d == _get_fs_and_path(op.target)
       IN  reported' = reported \cup s.printed \cup d.printed \cup
                       (IF s.fs # d.fs
                        THEN {Msg("Unable to move between different protocols", <<>>)}
                        ELSE {})
    /\ pc' = "mv_begin"
    /\ UNCHANGED <<op, ret, findDirs, idx, txn, begins, ends, calls, tasks, sem>>

\* lines 247-248, and lines 252-254 when start_transaction raises
MvBegin ==
    /\ pc = "mv_begin"
    /\ LET d == _get_fs_and_path(op.target)
       IN  IF d.fs = XetProto
           THEN /\ calls' = calls \cup {Call("begin", d.fs, <<>>, <<>>)}
                /\ \/ /\ txn' = "Active"
                      /\ begins' = begins + 1
                      /\ pc' = "mv_move"
                      /\ UNCHANGED reported
                   \/ /\ pc' = "returned"
                      /\ reported' = reported \cup {Msg("exception", <<>>)}
                      /\ UNCHANGED <<txn, begins>>
           ELSE /\ pc' = "mv_move"
                /\ UNCHANGED <<txn, begins, calls, reported>>
    /\ UNCHANGED <<op, ret, findDirs, idx, ends, tasks, sem>>

\* line 249, and lines 252-254 when the backend raises
MvMove ==
    /\ pc = "mv_move"
    /\ LET s == _get_fs_and_path(op.source)
           d == _get_fs_and_path(op.target)
       IN  calls' = calls \cup {Call("mv", d.fs, s.path, d.path)}
    /\ \/ /\ pc' = "mv_end"
          /\ UNCHANGED reported
       \/ /\ pc' = "returned"
          /\ reported' = reported \cup {Msg("exception", <<>>)}
    /\ UNCHANGED <<op, ret, findDirs, idx, txn, begins, ends, tasks, sem>>

\* lines 250-251, and lines 252-254 when end_transaction raises
MvEnd ==
    /\ pc = "mv_end"
    /\ LET d == _get_fs_and_path(op.target)
       IN  IF d.fs = XetProto
           THEN /\ calls' = calls \cup {Call("end", d.fs, <<>>, <<>>)}
                /\ \/ /\ txn' = "Idle"
                      /\ ends' = ends + 1
                      /\ UNCHANGED reported
                   \/ /\ txn' \in AfterFailedEnd
                      /\ reported' = reported \cup {Msg("exception", <<>>)}
                      /\ UNCHANGED ends
           ELSE UNCHANGED <<txn, ends, calls, reported>>
    /\ pc' = "returned"
    /\ UNCHANGED <<op, ret, findDirs, idx, begins, tasks, sem>>

----------------------------------------------------------------------------
(* _rm *)

\* line 266: the path names a branch root
IsBranchRoot(path) ==
    Len(parse_url(path).path) = 0 /\ Len(parse_url(path).branch) > 0

\* RmStart with the branch check applied to paths[0] alone
RmStart_FirstPathOnly ==
    /\ pc = "rm"
    /\ LET fs == _get_fs_and_path(op.paths[1]).fs
           pr == _get_fs_and_path(op.paths[1]).printed
       IN  IF fs = XetProto
           THEN IF IsBranchRoot(op.paths[1])
                THEN /\ reported' = reported \cup pr \cup
                                        {Msg("Cannot delete branches with rm", <<>>)}
                     /\ pc' = "returned"
                     /\ UNCHANGED <<txn, begins, calls>>
                ELSE /\ calls' = calls \cup {Call("begin", fs, <<>>, <<>>)}
                     /\ \/ /\ txn' = "Active"
                           /\ begins' = begins + 1
                           /\ pc' = "rm_loop"
                           /\ reported' = reported \cup pr
                        \/ /\ pc' = "returned"
                           /\ reported' = reported \cup pr \cup {Msg("exception", <<>>)}
                           /\ UNCHANGED <<txn, begins>>
           ELSE /\ pc' = "rm_loop"
                /\ reported' = reported \cup pr
                /\ UNCHANGED <<txn, begins, calls>>
    /\ UNCHANGED <<op, ret, findDirs, idx, ends, tasks, sem>>

\* lines 260-271: the handle of paths[0]; on xet the branch check, then begin;
\* lines 276-278 when start_transaction raises
RmStart ==
    /\ pc = "rm"
    /\ LET fs == _get_fs_and_path(op.paths[1]).fs
           pr == _get_fs_and_path(op.paths[1]).printed
       IN  IF fs = XetProto
           THEN IF \E i \in 1..Len(op.paths) : IsBranchRoot(op.paths[i])
                THEN /\ reported' = reported \cup pr \cup
                                        {Msg("Cannot delete branches with rm", <<>>)}
                     /\ pc' = "returned"
                     /\ UNCHANGED <<txn, begins, calls>>
                ELSE /\ calls' = calls \cup {Call("begin", fs, <<>>, <<>>)}
                     /\ \/ /\ txn' = "Active"
                           /\ begins' = begins + 1
                           /\ pc' = "rm_loop"
                           /\ reported' = reported \cup pr
                        \/ /\ pc' = "returned"
                           /\ reported' = reported \cup pr \cup {Msg("exception", <<>>)}
                           /\ UNCHANGED <<txn, begins>>
           ELSE /\ pc' = "rm_loop"
                /\ reported' = reported \cup pr
                /\ UNCHANGED <<txn, begins, calls>>
    /\ UNCHANGED <<op, ret, findDirs, idx, ends, tasks, sem>>

\* lines 272-273, and lines 276-278 when the backend raises
RmRemove ==
    /\ pc = "rm_loop"
    /\ idx <= Len(op.paths)
    /\ calls' = calls \cup {Call("rm", _get_fs_and_path(op.paths[1]).fs, op.paths[idx], <<>>)}
    /\ \/ /\ idx' = idx + 1
          /\ UNCHANGED <<pc, reported>>
       \/ /\ pc' = "returned"
          /\ reported' = reported \cup {Msg("exception", <<>>)}
          /\ UNCHANGED idx
    /\ UNCHANGED <<op, ret, findDirs, txn, begins, ends, tasks, sem>>

\* lines 274-275, and lines 276-278 when end_transaction raises
RmEnd ==
    /\ pc = "rm_loop"
    /\ idx > Len(op.paths)
    /\ LET fs == _get_fs_and_path(op.paths[1]).fs
       IN  IF fs = XetProto
           THEN /\ calls' = calls \cup {Call("end", fs, <<>>, <<>>)}
                /\ \/ /\ txn' = "Idle"
                      /\ ends' = ends + 1
                      /\ UNCHANGED reported
                   \/ /\ txn' \in AfterFailedEnd
                      /\ reported' = reported \cup {Msg("exception", <<>>)}
                      /\ UNCHANGED ends
           ELSE UNCHANGED <<txn, ends, calls, reported>>
    /\ pc' = "returned"
    /\ UNCHANGED <<op, ret, findDirs, idx, begins, tasks, sem>>

----------------------------------------------------------------------------
(* _root_copy, _copy and _single_file_copy *)

\* _isdir: isdir_or_branch on xet, isdir elsewhere
_isdir(fs, path) == IsDirWorld(fs, path)

\* lines 330-336: the destination _root_copy hands to _copy
RootDestination(source, destination) ==
    LET d == _get_fs_and_path(destination)
    IN  IF _isdir(d.fs, d.path) /\ ~HasStar(source)
        THEN (IF EndsWithSlash(destination) THEN destination ELSE destination \o <<"/">>)
             \o LastSeg(source)
        ELSE destination

\* _src_fs = None, _dest_fs = None: no handle was passed in
NoHandle == <<"!None">>

\* a frame of _copy (kind "copy") or a call of _single_file_copy (kind "file")
NewTask(kind, parent, inline, src, dst, hint, pool, recursive, sfs, dfs) ==
    [kind |-> kind, parent |-> parent, inline |-> inline, src |-> src, dst |-> dst,
     hint |-> hint, pool |-> pool, recursive |-> recursive, sfs |-> sfs, dfs |-> dfs,
     st |-> IF ~inline THEN "queued" ELSE IF kind = "copy" THEN "validate" ELSE "start",
     items |-> <<>>, spath |-> <<>>, dpath |-> <<>>, root |-> <<>>, mode |-> "none",
     join |-> 1, exc |-> FALSE, failed |-> FALSE, err |-> "", nhint |-> 0]

Terminal(t) == tasks[t].st \in {"done", "raised"}

\* the futures of frame f, in submission order
RECURSIVE ChildrenFrom(_, _)
ChildrenFrom(f, i) ==
    IF i > Len(tasks) THEN <<>>
    ELSE IF tasks[i].parent = f THEN <<i>> \o ChildrenFrom(f, i + 1)
    ELSE ChildrenFrom(f, i + 1)
Children(f) == ChildrenFrom(f, 1)

\* lines 129-132: the handles of a frame, inherited or resolved
SrcFs(f) == IF f.sfs # NoHandle THEN f.sfs ELSE _get_fs_and_path(f.src).fs
DestFs(f) == IF f.dfs # NoHandle THEN f.dfs ELSE _get_fs_and_path(f.dst).fs

\* lines 322-324: resolve the destination and ask whether it is a directory;
\* the request is outside any try
RcStart ==
    /\ pc = "cp"
    /\ LET d == _get_fs_and_path(op.target)
       IN  /\ calls' = calls \cup {Call("isdir", d.fs, d.path, <<>>)}
           /\ reported' = reported \cup d.printed
    /\ \/ pc' = "rc_begin"
       \/ pc' = "raised"
    /\ UNCHANGED <<op, ret, findDirs, idx, txn, begins, ends, tasks, sem>>

\* lines 330-340: adjust the destination, begin on xet, enter _copy; a
\* start_transaction that raises ends _root_copy
RcBegin ==
    /\ pc = "rc_begin"
    /\ LET d == _get_fs_and_path(op.target)
           root == <<NewTask("copy", 0, TRUE, op.source,
                             RootDestination(op.source, op.target),
                             None, op.pool, op.recursive, NoHandle, NoHandle)>>
       IN  IF d.fs = XetProto
           THEN /\ calls' = calls \cup {Call("begin", d.fs, <<>>, <<>>)}
                /\ \/ /\ txn' = "Active"
                      /\ begins' = begins + 1
                      /\ tasks' = root
                      /\ pc' = "rc_copy"
                   \/ /\ pc' = "raised"
                      /\ UNCHANGED <<txn, begins, tasks>>
           ELSE /\ tasks' = root
                /\ pc' = "rc_copy"
                /\ UNCHANGED <<txn, begins, calls>>
    /\ UNCHANGED <<op, ret, findDirs, idx, ends, reported, sem>>

\* RcEnd that does not wait for the walker's futures before end_transaction
RcEnd_Early ==
    /\ pc = "rc_copy"
    /\ tasks[1].st \in {"join", "shutdown", "done"}
    /\ LET d == _get_fs_and_path(op.target)
       IN  IF d.fs = XetProto
           THEN /\ calls' = calls \cup {Call("end", d.fs, <<>>, <<>>)}
                /\ \/ /\ txn' = "Idle"
                      /\ ends' = ends + 1
                      /\ pc' = "returned"
                   \/ /\ txn' \in AfterFailedEnd
                      /\ pc' = "raised"
                      /\ UNCHANGED ends
           ELSE /\ pc' = "returned"
                /\ UNCHANGED <<txn, ends, calls>>
    /\ UNCHANGED <<op, ret, findDirs, idx, begins, reported, tasks, sem>>

\* lines 341-342: _copy returned; an end_transaction that raises is passed on
RcEnd ==
    /\ pc = "rc_copy"
    /\ tasks[1].st = "done"
    /\ LET d == _get_fs_and_path(op.target)
       IN  IF d.fs = XetProto
           THEN /\ calls' = calls \cup {Call("end", d.fs, <<>>, <<>>)}
                /\ \/ /\ txn' = "Idle"
                      /\ ends' = ends + 1
                      /\ pc' = "returned"
                   \/ /\ txn' \in AfterFailedEnd
                      /\ pc' = "raised"
                      /\ UNCHANGED ends
           ELSE /\ pc' = "returned"
                /\ UNCHANGED <<txn, ends, calls>>
    /\ UNCHANGED <<op, ret, findDirs, idx, begins, reported, tasks, sem>>

\* line 340: _copy raised, and _root_copy with it
RcRaise ==
    /\ pc = "rc_copy"
    /\ tasks[1].st = "raised"
    /\ pc' = "raised"
    /\ UNCHANGED <<op, ret, findDirs, idx, txn, begins, ends, calls, reported, tasks, sem>>

\* is the source branch looked up (line 99), is the destination branch
\* (lines 102-113: not for a branch to branch copy)
SrcCheck(f, sp) == SrcFs(f) = XetProto
DestCheck(f, sp, dp) ==
    /\ DestFs(f) = XetProto
    /\ ~(SrcFs(f) = XetProto /\ parse_url(sp).path = <<>> /\ parse_url(dp).path = <<>>)

\* lines 127-128, then _validate_xet_copy (called at line 136) up to its first
\* request: branch_info on the source (line 100) or, when the source is not
\* xet, branch_info on the destination (line 113)
CopyValidate(t) ==
    /\ tasks[t].kind = "copy"
    /\ tasks[t].st = "validate"
    /\ \E s \in {_get_fs_and_path(tasks[t].src)}, d \in {_get_fs_and_path(tasks[t].dst)} :
       LET f  == tasks[t]
           sp == s.path
           dp == d.path
           raised == [tasks EXCEPT ![t].st = "raised", ![t].err = "BranchMissing"]
       IN  /\ reported' = reported \cup s.printed \cup d.printed
           /\ IF SrcCheck(f, sp)
              THEN /\ calls' = calls \cup {Call("branch_info", SrcFs(f), sp, <<>>)}
                   /\ \/ tasks' = [tasks EXCEPT ![t].st =
                                      IF DestCheck(f, sp, dp) THEN "validate_dest" ELSE "resolve"]
                      \/ tasks' = raised
              ELSE IF DestCheck(f, sp, dp)
              THEN /\ calls' = calls \cup {Call("branch_info", DestFs(f), dp, <<>>)}
                   /\ \/ tasks' = [tasks EXCEPT ![t].st = "resolve"]
                      \/ tasks' = raised
              ELSE /\ tasks' = [tasks EXCEPT ![t].st = "resolve"]
                   /\ UNCHANGED calls
    /\ UNCHANGED <<op, ret, findDirs, pc, idx, txn, begins, ends, sem>>

\* line 113: the source branch has answered, branch_info on the destination
CopyValidateDest(t) ==
    /\ tasks[t].kind = "copy"
    /\ tasks[t].st = "validate_dest"
    /\ calls' = calls \cup {Call("branch_info", DestFs(tasks[t]),
                                 _get_fs_and_path(tasks[t].dst).path, <<>>)}
    /\ \/ tasks' = [tasks EXCEPT ![t].st = "resolve"]
       \/ tasks' = [tasks EXCEPT ![t].st = "raised", ![t].err = "BranchMissing"]
    /\ UNCHANGED <<op, ret, findDirs, pc, idx, txn, begins, ends, reported, sem>>

\* lines 140-143
Normalize(path) == IF path # <<"/">> THEN RStrip(path) ELSE path

\* lines 152-153: a wildcard before the last component
InvalidGlob_SliceTwo(sp) == HasStar(DirName(DirName(sp)))
InvalidGlob(sp) == HasStar(DirName(sp))

\* lines 140-154 and the choice of the mode (lines 147, 197, 200, 233): the
\* paths are normalised, _isdir is asked about the source (line 144), then the
\* wildcard is checked; isdir is a request outside any try
CopyResolve(t) ==
    /\ tasks[t].kind = "copy"
    /\ tasks[t].st = "resolve"
    /\ \E sp \in {Normalize(_get_fs_and_path(tasks[t].src).path)},
          dp \in {Normalize(_get_fs_and_path(tasks[t].dst).path)} :
       LET f     == tasks[t]
           sfs   == SrcFs(f)
           dfs   == DestFs(f)
           base  == [f EXCEPT !.spath = sp, !.dpath = dp]
           to(st) == [tasks EXCEPT ![t] = [base EXCEPT !.st = st]]
           failed(e) == [tasks EXCEPT ![t] = [base EXCEPT !.st = "raised", !.err = e]]
       IN  /\ calls' = calls \cup {Call("isdir", sfs, sp, <<>>)}
           /\ \/ tasks' = failed("isdir")
              \/ IF HasStar(sp)
                 THEN IF InvalidGlob(sp)
                      THEN tasks' = failed("InvalidGlob")
                      ELSE tasks' = to("enumerate")
                 ELSE IF _isdir(sfs, sp)
                 THEN IF sfs = XetProto /\ dfs = XetProto
                      THEN tasks' = to("native")
                      ELSE tasks' = to("enumerate")
                 ELSE tasks' = Append(to("wait"),
                                      NewTask("file", t, TRUE, sp, dp, None, f.pool, FALSE,
                                              sfs, dfs))
    /\ UNCHANGED <<op, ret, findDirs, pc, idx, txn, begins, ends, reported, sem>>

\* where a walker goes once the entry in hand is dealt with: the next turn of
\* the loop or, past the last entry, "for future in futures" (lines 192 and
\* 229), which ends at once when nothing was submitted
AfterEntry(rest, nfutures) ==
    IF rest # <<>> THEN "loop" ELSE IF nfutures > 0 THEN "join" ELSE "shutdown"

\* lines 156-158 and 204-206: inside "with ThreadPoolExecutor()", glob on a
\* pattern or find on a directory; a request that raises leaves the frame
\* with nothing submitted
CopyEnumerate(t) ==
    /\ tasks[t].kind = "copy"
    /\ tasks[t].st = "enumerate"
    /\ LET f   == tasks[t]
           sfs == SrcFs(f)
           sp  == f.spath
       IN  IF HasStar(sp)
           THEN /\ calls' = calls \cup {Call("glob", sfs, sp, <<>>)}
                /\ \/ tasks' = [tasks EXCEPT ![t] =
                                  [f EXCEPT !.st = AfterEntry(Sorted(GlobWorld(sfs, sp)), 0),
                                            !.mode = "glob", !.root = DirName(sp),
                                            !.items = Sorted(GlobWorld(sfs, sp))]]
                   \/ tasks' = [tasks EXCEPT ![t].st = "raised", ![t].err = "glob"]
           ELSE /\ calls' = calls \cup {Call("find", sfs, sp, <<>>)}
                /\ \/ tasks' = [tasks EXCEPT ![t] =
                                  [f EXCEPT !.st = AfterEntry(Sorted(FindWorld(sfs, sp, findDirs)), 0),
                                            !.mode = "dir", !.root = sp,
                                            !.items = Sorted(FindWorld(sfs, sp, findDirs))]]
                   \/ tasks' = [tasks EXCEPT ![t].st = "raised", ![t].err = "find"]
    /\ UNCHANGED <<op, ret, findDirs, pc, idx, txn, begins, ends, reported, sem>>

\* lines 200-203: xet to xet, the whole directory in one cp_file
CopyNative(t) ==
    /\ tasks[t].kind = "copy"
    /\ tasks[t].st = "native"
    /\ calls' = calls \cup {Call("cp_file", DestFs(tasks[t]), tasks[t].spath, tasks[t].dpath)}
    /\ \/ tasks' = [tasks EXCEPT ![t].st = "done"]
       \/ tasks' = [tasks EXCEPT ![t].st = "raised", ![t].err = "cp_file"]
    /\ UNCHANGED <<op, ret, findDirs, pc, idx, txn, begins, ends, reported, sem>>

\* DestForPath that keeps only the entry's name, flattening the tree
DestForPath_Flat(root, dpath, path) ==
    IF dpath = <<"/">> THEN <<"/">> \o LastSeg(path) ELSE dpath \o <<"/">> \o LastSeg(path)

\* lines 162-166 and 211-215: where an enumerated path goes
DestForPath(root, dpath, path) ==
    LET relpath == LStrip(_ltrim_match(path, root))
    IN  IF dpath = <<"/">> THEN <<"/">> \o relpath ELSE dpath \o <<"/">> \o relpath

\* the item the loop submits for entry e: lines 170-190 (glob), 219-227 (directory)
Submitted(t, e) ==
    LET f   == tasks[t]
        dst == DestForPath(f.root, f.dpath, e.path)
    IN  IF f.mode = "glob" /\ e.type = "directory"
        THEN NewTask("copy", t, FALSE, SrcFs(f) \o <<":", "/", "/">> \o e.path,
                     DestFs(f) \o <<":", "/", "/">> \o dst, None, "global", TRUE,
                     SrcFs(f), DestFs(f))
        ELSE NewTask("file", t, FALSE, e.path, dst, e.size, "global", FALSE,
                     SrcFs(f), DestFs(f))

\* CopyLoop with lines 217 and 219 in the other order: the item is submitted
\* in one turn, the makedirs for its parent directory comes in the next
CopyLoop_SubmitFirst(t) ==
    /\ tasks[t].kind = "copy"
    /\ tasks[t].st = "loop"
    /\ tasks[t].items # <<>>
    /\ LET f == tasks[t]
           e == Head(f.items)
           rest == [f EXCEPT !.items = Tail(f.items),
                             !.st = AfterEntry(Tail(f.items), Len(Children(t)))]
           stopped(err) == [f EXCEPT !.st = "shutdown", !.exc = TRUE, !.err = err]
       IN  IF e.type = "directory" /\ ~f.recursive
           THEN /\ tasks' = [tasks EXCEPT ![t] = rest]
                /\ UNCHANGED calls
           ELSE IF _ltrim_match(e.path, f.root) = PathMismatch
           THEN /\ tasks' = [tasks EXCEPT ![t] = stopped("PathMismatch")]
                /\ UNCHANGED calls
           ELSE IF \A c \in 1..Len(tasks) :
                      tasks[c].parent = t => tasks[c].src # Submitted(t, e).src
           THEN /\ tasks' = Append(tasks, Submitted(t, e))
                /\ UNCHANGED calls
           ELSE /\ calls' = calls \cup
                       {Call("makedirs", DestFs(f),
                             DirName(DestForPath(f.root, f.dpath, e.path)), <<>>)}
                /\ \/ tasks' = [tasks EXCEPT ![t] = rest]
                   \/ tasks' = [tasks EXCEPT ![t] = stopped("makedirs")]
    /\ UNCHANGED <<op, ret, findDirs, pc, idx, txn, begins, ends, reported, sem>>

\* one turn of the loop at lines 158-168 or 206-217, up to makedirs: the head
\* of items is the entry in hand; a skipped entry leaves items at once, the
\* others stay until they are submitted; a makedirs that raises ends the loop
\* at that entry and the frame leaves the with block
CopyLoop(t) ==
    /\ tasks[t].kind = "copy"
    /\ tasks[t].st = "loop"
    /\ tasks[t].items # <<>>
    /\ LET f == tasks[t]
           e == Head(f.items)
           rest == [f EXCEPT !.items = Tail(f.items),
                             !.st = AfterEntry(Tail(f.items), Len(Children(t)))]
           stopped(err) == [f EXCEPT !.st = "shutdown", !.exc = TRUE, !.err = err]
       IN  IF e.type = "directory" /\ ~f.recursive
           THEN /\ tasks' = [tasks EXCEPT ![t] = rest]
                /\ UNCHANGED calls
           ELSE IF _ltrim_match(e.path, f.root) = PathMismatch
           THEN /\ tasks' = [tasks EXCEPT ![t] = stopped("PathMismatch")]
                /\ UNCHANGED calls
           ELSE /\ calls' = calls \cup
                       {Call("makedirs", DestFs(f),
                             DirName(DestForPath(f.root, f.dpath, e.path)), <<>>)}
                /\ \/ tasks' = [tasks EXCEPT ![t].st = "submit"]
                   \/ tasks' = [tasks EXCEPT ![t] = stopped("makedirs")]
    /\ UNCHANGED <<op, ret, findDirs, pc, idx, txn, begins, ends, reported, sem>>

\* lines 170-190 and 219-227: makedirs has answered, executor.submit for the
\* entry in hand; the loop goes on to the next entry
CopySubmit(t) ==
    /\ tasks[t].kind = "copy"
    /\ tasks[t].st = "submit"
    /\ tasks' = Append([tasks EXCEPT ![t].st = AfterEntry(Tail(tasks[t].items), 1),
                                      ![t].items = Tail(tasks[t].items)],
                       Submitted(t, Head(tasks[t].items)))
    /\ UNCHANGED <<op, ret, findDirs, pc, idx, txn, begins, ends, calls, reported, sem>>

\* lines 192-193 and 229-230: future.result(), in submission order; after the
\* last future the frame leaves the with block
CopyJoin(t) ==
    /\ tasks[t].kind = "copy"
    /\ tasks[t].st = "join"
    /\ LET cs == Children(t)
           j  == tasks[t].join
       IN  /\ Terminal(cs[j])
           /\ IF tasks[cs[j]].st = "raised"
              THEN tasks' = [tasks EXCEPT ![t].st = "shutdown", ![t].exc = TRUE,
                                               ![t].err = tasks[cs[j]].err]
              ELSE IF j = Len(cs)
              THEN tasks' = [tasks EXCEPT ![t].st = "shutdown"]
              ELSE tasks' = [tasks EXCEPT ![t].join = j + 1]
    /\ UNCHANGED <<op, ret, findDirs, pc, idx, txn, begins, ends, calls, reported, sem>>

\* CopyShutdown as shutdown(wait=False): the frame leaves at once
CopyShutdown_NoWait(t) ==
    /\ tasks[t].kind = "copy"
    /\ tasks[t].st = "shutdown"
    /\ tasks' = [tasks EXCEPT ![t].st = IF tasks[t].exc THEN "raised" ELSE "done"]
    /\ UNCHANGED <<op, ret, findDirs, pc, idx, txn, begins, ends, calls, reported, sem>>

\* leaving "with ThreadPoolExecutor()": shutdown(wait=True), then return or re-raise
CopyShutdown(t) ==
    /\ tasks[t].kind = "copy"
    /\ tasks[t].st = "shutdown"
    /\ \A c \in 1..Len(tasks) : tasks[c].parent = t => Terminal(c)
    /\ tasks' = [tasks EXCEPT ![t].st = IF tasks[t].exc THEN "raised" ELSE "done"]
    /\ UNCHANGED <<op, ret, findDirs, pc, idx, txn, begins, ends, calls, reported, sem>>

\* line 233: the direct call of _single_file_copy has come back
CopySingleDone(t) ==
    /\ tasks[t].kind = "copy"
    /\ tasks[t].st = "wait"
    /\ \E c \in 1..Len(tasks) :
          /\ tasks[c].parent = t
          /\ Terminal(c)
          /\ tasks' = [tasks EXCEPT ![t].st = tasks[c].st, ![t].err = tasks[c].err]
    /\ UNCHANGED <<op, ret, findDirs, pc, idx, txn, begins, ends, calls, reported, sem>>

\* tasks of f's executor that hold one of its worker threads
Running(f) ==
    {c \in 1..Len(tasks) :
        tasks[c].parent = f /\ ~tasks[c].inline /\ tasks[c].st \notin {"queued", "done", "raised"}}

\* WorkerStart with workers that are not given back to the pool: each serves
\* one item
WorkerStart_NoReuse(t) ==
    /\ tasks[t].st = "queued"
    /\ Cardinality({c \in 1..Len(tasks) :
                       /\ tasks[c].parent = tasks[t].parent
                       /\ ~tasks[c].inline /\ tasks[c].st # "queued"}) < PoolSize
    /\ \A c \in 1..(t - 1) : tasks[c].parent = tasks[t].parent => tasks[c].st # "queued"
    /\ tasks' = [tasks EXCEPT ![t].st = IF tasks[t].kind = "copy" THEN "validate" ELSE "start"]
    /\ UNCHANGED <<op, ret, findDirs, pc, idx, txn, begins, ends, calls, reported, sem>>

\* a free worker of the executor takes the oldest queued item
WorkerStart(t) ==
    /\ tasks[t].st = "queued"
    /\ Cardinality(Running(tasks[t].parent)) < PoolSize
    /\ \A c \in 1..(t - 1) : tasks[c].parent = tasks[t].parent => tasks[c].st # "queued"
    /\ tasks' = [tasks EXCEPT ![t].st = IF tasks[t].kind = "copy" THEN "validate" ELSE "start"]
    /\ UNCHANGED <<op, ret, findDirs, pc, idx, txn, begins, ends, calls, reported, sem>>

\* WantsHint with a strict comparison
WantsHint_Strict(size) == size # None /\ size > DedupThreshold

\* line 72: is the size at or above the threshold
WantsHint(size) == size # None /\ size >= DedupThreshold

\* FileBegin with the skip rule reading the source's final segment
FileBegin_SkipBySource(t) ==
    /\ tasks[t].kind = "file"
    /\ tasks[t].st = "start"
    /\ LET f == tasks[t]
       IN  IF LastSeg(f.src) = <<".gitattributes">>
           THEN /\ tasks' = [tasks EXCEPT ![t].st = "done"]
                /\ reported' = reported \cup {Msg("Skipping .gitattributes", f.dst)}
           ELSE /\ tasks' = [tasks EXCEPT ![t].st =
                                IF f.sfs = XetProto /\ f.dfs = XetProto THEN "native" ELSE "acquire"]
                /\ UNCHANGED reported
    /\ UNCHANGED <<op, ret, findDirs, pc, idx, txn, begins, ends, calls, sem>>

\* lines 56-63: the skip rule and the choice of path
FileBegin(t) ==
    /\ tasks[t].kind = "file"
    /\ tasks[t].st = "start"
    /\ LET f == tasks[t]
       IN  IF LastSeg(f.dst) = <<".gitattributes">>
           THEN /\ tasks' = [tasks EXCEPT ![t].st = "done"]
                /\ reported' = reported \cup {Msg("Skipping .gitattributes", f.dst)}
           ELSE /\ tasks' = [tasks EXCEPT ![t].st =
                                IF f.sfs = XetProto /\ f.dfs = XetProto THEN "native" ELSE "acquire"]
                /\ UNCHANGED reported
    /\ UNCHANGED <<op, ret, findDirs, pc, idx, txn, begins, ends, calls, sem>>

\* line 62: the native copy, outside any try
FileNative(t) ==
    /\ tasks[t].kind = "file"
    /\ tasks[t].st = "native"
    /\ calls' = calls \cup {Call("cp_file", tasks[t].dfs, tasks[t].src, tasks[t].dst)}
    /\ \/ tasks' = [tasks EXCEPT ![t].st = "done"]
       \/ tasks' = [tasks EXCEPT ![t].st = "raised", ![t].err = "cp_file"]
    /\ UNCHANGED <<op, ret, findDirs, pc, idx, txn, begins, ends, reported, sem>>

\* FileAcquire with a non-blocking acquire whose result is ignored
FileAcquire_NoBlock(t) ==
    /\ tasks[t].kind = "file"
    /\ tasks[t].st = "acquire"
    /\ sem' = [sem EXCEPT ![tasks[t].pool] = @ - 1]
    /\ tasks' = [tasks EXCEPT ![t].st =
                    IF tasks[t].dfs # XetProto THEN "open"
                    ELSE IF tasks[t].hint = None THEN "info"
                    ELSE IF WantsHint(tasks[t].hint) THEN "hint" ELSE "open"]
    /\ UNCHANGED <<op, ret, findDirs, pc, idx, txn, begins, ends, calls, reported>>

\* line 64: "with max_concurrent_copies" blocks until a permit is free
FileAcquire(t) ==
    /\ tasks[t].kind = "file"
    /\ tasks[t].st = "acquire"
    /\ sem[tasks[t].pool] > 0
    /\ sem' = [sem EXCEPT ![tasks[t].pool] = @ - 1]
    /\ tasks' = [tasks EXCEPT ![t].st =
                    IF tasks[t].dfs # XetProto THEN "open"
                    ELSE IF tasks[t].hint = None THEN "info"
                    ELSE IF WantsHint(tasks[t].hint) THEN "hint" ELSE "open"]
    /\ UNCHANGED <<op, ret, findDirs, pc, idx, txn, begins, ends, calls, reported>>

\* lines 67-68: the size lookup
FileInfo(t) ==
    /\ tasks[t].kind = "file"
    /\ tasks[t].st = "info"
    /\ calls' = calls \cup {Call("info", tasks[t].sfs, tasks[t].src, <<>>)}
    /\ \/ LET size == SizeWorld(tasks[t].sfs, tasks[t].src)
          IN  tasks' = [tasks EXCEPT ![t].hint = size,
                                     ![t].st = IF WantsHint(size) THEN "hint" ELSE "open"]
       \/ tasks' = [tasks EXCEPT ![t].st = "except", ![t].failed = TRUE]
    /\ UNCHANGED <<op, ret, findDirs, pc, idx, txn, begins, ends, reported, sem>>

\* lines 72-73
FileHint(t) ==
    /\ tasks[t].kind = "file"
    /\ tasks[t].st = "hint"
    /\ calls' = calls \cup {Call("hint", tasks[t].dfs, tasks[t].dst, <<>>)}
    /\ \/ tasks' = [tasks EXCEPT ![t].st = "open", ![t].nhint = @ + 1]
       \/ tasks' = [tasks EXCEPT ![t].st = "except", ![t].failed = TRUE, ![t].nhint = @ + 1]
    /\ UNCHANGED <<op, ret, findDirs, pc, idx, txn, begins, ends, reported, sem>>

\* line 75: open the source for read
FileOpen(t) ==
    /\ tasks[t].kind = "file"
    /\ tasks[t].st = "open"
    /\ calls' = calls \cup {Call("open_rb", tasks[t].sfs, tasks[t].src, <<>>)}
    /\ \/ tasks' = [tasks EXCEPT ![t].st = "open_dest"]
       \/ tasks' = [tasks EXCEPT ![t].st = "except", ![t].failed = TRUE]
    /\ UNCHANGED <<op, ret, findDirs, pc, idx, txn, begins, ends, reported, sem>>

\* line 76: the source is open, open the destination for write
FileOpenDest(t) ==
    /\ tasks[t].kind = "file"
    /\ tasks[t].st = "open_dest"
    /\ calls' = calls \cup {Call("open_wb", tasks[t].dfs, tasks[t].dst, <<>>)}
    /\ \/ tasks' = [tasks EXCEPT ![t].st = "stream"]
       \/ tasks' = [tasks EXCEPT ![t].st = "except", ![t].failed = TRUE]
    /\ UNCHANGED <<op, ret, findDirs, pc, idx, txn, begins, ends, reported, sem>>

\* lines 78-82: the chunked read / write loop; an empty source is read once
\* and nothing is written; a read or a write may raise
FileStream(t) ==
    /\ tasks[t].kind = "file"
    /\ tasks[t].st = "stream"
    /\ LET w == Call("write", tasks[t].dfs, tasks[t].dst, <<>>)
           empty == SizeWorld(tasks[t].sfs, tasks[t].src) = 0
       IN  \/ /\ calls' = IF empty THEN calls ELSE calls \cup {w}
              /\ tasks' = [tasks EXCEPT ![t].st = "release"]
           \/ /\ ~empty
              /\ calls' = calls \cup {w}
              /\ tasks' = [tasks EXCEPT ![t].st = "except", ![t].failed = TRUE]
           \/ /\ UNCHANGED calls
              /\ tasks' = [tasks EXCEPT ![t].st = "except", ![t].failed = TRUE]
    /\ UNCHANGED <<op, ret, findDirs, pc, idx, txn, begins, ends, reported, sem>>

\* lines 83-85: the failure is caught and printed, still inside the with block
FileExcept(t) ==
    /\ tasks[t].kind = "file"
    /\ tasks[t].st = "except"
    /\ reported' = reported \cup {Msg("Failed to copy", tasks[t].src)}
    /\ tasks' = [tasks EXCEPT ![t].st = "release"]
    /\ UNCHANGED <<op, ret, findDirs, pc, idx, txn, begins, ends, calls, sem>>

\* FileRelease with the release skipped on the exception path
FileRelease_LeakOnFailure(t) ==
    /\ tasks[t].kind = "file"
    /\ tasks[t].st = "release"
    /\ sem' = IF tasks[t].failed THEN sem ELSE [sem EXCEPT ![tasks[t].pool] = @ + 1]
    /\ tasks' = [tasks EXCEPT ![t].st = "return"]
    /\ UNCHANGED <<op, ret, findDirs, pc, idx, txn, begins, ends, calls, reported>>

\* the end of the with block of line 64: the permit goes back; the function
\* has not returned yet
FileRelease(t) ==
    /\ tasks[t].kind = "file"
    /\ tasks[t].st = "release"
    /\ sem' = [sem EXCEPT ![tasks[t].pool] = @ + 1]
    /\ tasks' = [tasks EXCEPT ![t].st = "return"]
    /\ UNCHANGED <<op, ret, findDirs, pc, idx, txn, begins, ends, calls, reported>>

\* _single_file_copy returns: the future is done, the worker is free
FileReturn(t) ==
    /\ tasks[t].kind = "file"
    /\ tasks[t].st = "return"
    /\ tasks' = [tasks EXCEPT ![t].st = "done"]
    /\ UNCHANGED <<op, ret, findDirs, pc, idx, txn, begins, ends, calls, reported, sem>>

Next ==
    \/ \E t \in 1..Len(tasks) : FileReturn(t)
    \/ \E t \in 1..Len(tasks) : FileRelease(t)
    \/ \E t \in 1..Len(tasks) : FileExcept(t)
    \/ \E t \in 1..Len(tasks) : FileStream(t)
    \/ \E t \in 1..Len(tasks) : FileOpenDest(t)
    \/ \E t \in 1..Len(tasks) : FileOpen(t)
    \/ \E t \in 1..Len(tasks) : FileHint(t)
    \/ \E t \in 1..Len(tasks) : FileInfo(t)
    \/ \E t \in 1..Len(tasks) : FileAcquire(t)
    \/ \E t \in 1..Len(tasks) : FileNative(t)
    \/ \E t \in 1..Len(tasks) : FileBegin(t)
    \/ \E t \in 1..Len(tasks) : WorkerStart(t)
    \/ \E t \in 1..Len(tasks) : CopySingleDone(t)
    \/ \E t \in 1..Len(tasks) : CopyShutdown(t)
    \/ \E t \in 1..Len(tasks) : CopyJoin(t)
    \/ \E t \in 1..Len(tasks) : CopySubmit(t)
    \/ \E t \in 1..Len(tasks) : CopyLoop(t)
    \/ \E t \in 1..Len(tasks) : CopyNative(t)
    \/ \E t \in 1..Len(tasks) : CopyEnumerate(t)
    \/ \E t \in 1..Len(tasks) : CopyResolve(t)
    \/ \E t \in 1..Len(tasks) : CopyValidateDest(t)
    \/ \E t \in 1..Len(tasks) : CopyValidate(t)
    \/ RcStart \/ RcBegin \/ RcEnd \/ RcRaise
    \/ RmStart \/ RmRemove \/ RmEnd
    \/ MvResolve \/ MvBegin \/ MvMove \/ MvEnd
    \/ DupStart \/ DupRepo \/ DupPrivate \/ DupPublic \/ DupExcept
    \/ Info
    \/ Trim

Spec == Init /\ [][Next]_vars

\* the interpreter keeps running some thread that can run: a step that can be
\* taken is not put off forever
FairSpec == LiveInit /\ [][Next]_vars /\ WF_vars(Next)

----------------------------------------------------------------------------
(* Properties *)

Exited == pc \in {"returned", "raised"}

CallsOf(kinds) == {c \in calls : c.op \in kinds}

FileTasks == {t \in 1..Len(tasks) : tasks[t].kind = "file"}

\* a start_transaction was issued and itself raised
BeginRaised == CallsOf({"begin"}) # {} /\ begins = 0

\* an end_transaction was issued and itself raised
EndRaised == CallsOf({"end"}) # {} /\ ends = 0

\* C1: when _mv, _rm or _root_copy has returned or raised, every transaction
\* it began on the xet handle has been ended: the handle is Idle again (an
\* end_transaction that was issued and itself raised aside).
C1_TransactionEndedOnExit ==
    Exited => ((txn = "Idle" /\ ends = begins) \/ EndRaised)

MvCrossProtocol ==
    /\ op.name = "mv"
    /\ _get_fs_and_path(op.source).fs # _get_fs_and_path(op.target).fs

\* C2: a move between two different protocols is reported and aborted: no
\* start_transaction, no mv and no end_transaction reaches either backend.
C2_CrossProtocolMoveAborted ==
    MvCrossProtocol =>
        /\ CallsOf({"begin", "mv", "end"}) = {}
        /\ (Exited => \E m \in reported : m.msg = "Unable to move between different protocols")

\* C3: once a copy has returned or raised, every semaphore has as many
\* permits as before the copy, whichever items failed and wherever.
C3_PermitsRestored ==
    (op.name = "cp" /\ Exited) => \A p \in Pools : sem[p] = PermitCap

\* a batch that has come back with one transfer failed and another written
C3_Witness ==
    /\ op.name = "cp"
    /\ pc = "returned"
    /\ \E t \in FileTasks, u \in FileTasks :
          /\ tasks[t].failed /\ ~tasks[t].inline
          /\ ~tasks[u].failed /\ tasks[u].st = "done"
          /\ \E c \in CallsOf({"write"}) : c.path = tasks[u].dst

\* transfers between the acquire and the release of their permit
InDataPhase ==
    {t \in FileTasks : tasks[t].st \in {"info", "hint", "open", "open_dest", "stream", "except", "release"}}

\* items that occupy a worker thread of some executor
BusyWorkers ==
    {t \in 1..Len(tasks) : ~tasks[t].inline /\ tasks[t].st \notin {"queued", "done", "raised"}}

\* C4: the transfers that are in their data phase at the same time never
\* outnumber the permits of the process-wide semaphore.
C4_DataPhaseBounded ==
    Cardinality(InDataPhase) <= PermitCap

\* more busy workers than permits, every permit taken and a transfer blocked
\* on the semaphore
C4_Witness ==
    /\ Cardinality(BusyWorkers) > PermitCap
    /\ Cardinality(InDataPhase) = PermitCap
    /\ \E t \in FileTasks : tasks[t].st = "acquire" /\ sem[tasks[t].pool] = 0

DirSourceNoWildcard ==
    /\ op.name = "cp"
    /\ ~HasStar(op.source)
    /\ LET s == _get_fs_and_path(op.source) IN _isdir(s.fs, Normalize(s.path))

\* C5: a copy of a directory (no wildcard) with recursive = false dispatches
\* no transfer and opens nothing for write at the destination.
C5_NonRecursiveDirectoryCopiesNothing ==
    (DirSourceNoWildcard /\ ~op.recursive) =>
        /\ FileTasks = {}
        /\ CallsOf({"open_wb", "write", "cp_file"}) = {}

WildcardBeforeLastSegment ==
    /\ op.name = "cp"
    /\ HasStar(DirName(Normalize(_get_fs_and_path(op.source).path)))

\* C6 as claimed: with a wildcard before the last segment of the source, no
\* backend call at all has been issued when the copy fails.
C6_NoBackendCallBeforeInvalidGlob ==
    WildcardBeforeLastSegment => calls = {}

\* C6 as amended: with a wildcard before the last segment of the source the
\* copy always fails and never starts transfer work: its only backend calls
\* are the directory checks, the branch checks and (xet destination) the
\* start_transaction; no glob, find, makedirs, open, hint or cp_file is
\* issued and no item is dispatched.  When _copy itself fails, the failure
\* is the invalid-glob error unless a branch check or the source directory
\* check failed before it; once both directory checks have answered, it is
\* the invalid-glob error.
C6_InvalidGlobBeforeTransferWork ==
    WildcardBeforeLastSegment =>
        /\ \A c \in calls : c.op \in {"isdir", "branch_info", "begin"}
        /\ Len(tasks) <= 1
        /\ pc # "returned"
        /\ \A t \in 1..Len(tasks) :
              /\ tasks[t].st \in {"validate", "validate_dest", "resolve", "raised"}
              /\ (tasks[t].st = "raised" =>
                     tasks[t].err \in {"InvalidGlob", "BranchMissing", "isdir"})
              /\ (tasks[t].st = "raised" /\ tasks[t].err \notin {"BranchMissing", "isdir"}
                     => Cardinality(CallsOf({"isdir"})) = 2)

\* the invalid-glob error has been raised, after both directory checks
C6_Witness ==
    /\ WildcardBeforeLastSegment
    /\ pc = "raised"
    /\ Len(tasks) = 1
    /\ tasks[1].err = "InvalidGlob"
    /\ Cardinality(CallsOf({"isdir"})) = 2

RmOnXetWithBranchRoot ==
    /\ op.name = "rm"
    /\ _get_fs_and_path(op.paths[1]).fs = XetProto
    /\ \E i \in 1..Len(op.paths) : IsBranchRoot(op.paths[i])

\* C7: _rm on xet with a branch root anywhere in the list is refused: the
\* error is printed, no transaction is begun and no path is removed.
C7_BranchRootDeleteRefused ==
    RmOnXetWithBranchRoot =>
        /\ txn = "Idle" /\ begins = 0
        /\ CallsOf({"begin", "rm", "end"}) = {}
        /\ pc \in {"rm", "returned"}
        /\ (pc = "returned" => Msg("Cannot delete branches with rm", <<>>) \in reported)

\* refused with the branch root listed after an ordinary path
C7_Witness ==
    /\ RmOnXetWithBranchRoot
    /\ Len(op.paths) >= 2
    /\ ~IsBranchRoot(op.paths[1])
    /\ pc = "returned"

RmOnXetNoBranchRoot ==
    /\ op.name = "rm"
    /\ _get_fs_and_path(op.paths[1]).fs = XetProto
    /\ \A i \in 1..Len(op.paths) : ~IsBranchRoot(op.paths[i])

\* C8: _rm of non-branch paths on xet opens exactly one transaction, issues
\* rm for every requested path inside it, and then closes it (a
\* start_transaction or end_transaction that itself raised aside).
C8_DeleteInOneClosedTransaction ==
    (RmOnXetNoBranchRoot /\ pc = "returned" /\ ~BeginRaised /\ ~EndRaised) =>
        /\ begins = 1 /\ ends = 1 /\ txn = "Idle"
        /\ \A i \in 1..Len(op.paths) :
              \E c \in CallsOf({"rm"}) : c.path = op.paths[i] /\ c.begins = 1 /\ c.ends = 0

\* the failures of a walker's own loop: a path outside the root, a makedirs
\* that raised
WalkErrors == {"PathMismatch", "makedirs"}

\* C9: in a directory or glob copy no item ends with an exception and no
\* walker raises to its caller because of an item (it may for a failure of
\* its own loop): item failures are absorbed.
C9_ItemFailuresAbsorbed ==
    \A t \in 1..Len(tasks) :
        /\ (~tasks[t].inline => tasks[t].st # "raised")
        /\ (tasks[t].kind = "copy" /\ tasks[t].mode # "none" /\ tasks[t].exc =>
               tasks[t].err \in WalkErrors)

Protected(path) == LastSeg(path) = <<".gitattributes">>

\* C10: no open-for-write, write or deduplication hint is ever issued for a
\* destination whose final segment is .gitattributes, and the item that was
\* skipped for it ends normally, without a failure report.
C10_AttributesMarkerNeverWritten ==
    /\ \A c \in CallsOf({"open_wb", "write", "hint"}) : ~Protected(c.path)
    /\ \A t \in FileTasks :
          Protected(tasks[t].dst) =>
              /\ tasks[t].st \in {"queued", "start", "done"}
              /\ ~tasks[t].failed
              /\ tasks[t].st = "done" => Msg("Skipping .gitattributes", tasks[t].dst) \in reported

\* a batch copy is over: .gitattributes was enumerated and skipped while a
\* sibling was written
C10_Witness ==
    /\ pc = "returned"
    /\ \E t \in FileTasks, u \in FileTasks :
          /\ ~tasks[t].inline /\ Protected(tasks[t].dst) /\ Protected(tasks[t].src)
          /\ tasks[t].st = "done"
          /\ tasks[u].parent = tasks[t].parent
          /\ \E c \in CallsOf({"write"}) : c.path = tasks[u].dst

CopyToXet ==
    /\ op.name = "cp"
    /\ _get_fs_and_path(op.target).fs = XetProto

\* C11: a root copy to xet issues at most one start_transaction and at most
\* one end_transaction; _copy is entered only with the transaction begun, a
\* copy that returns has issued exactly one of each, and every makedirs, open
\* for write, write, hint and cp_file on the destination, from any thread and
\* any nested _copy, is issued after the begin and before the end.
C11_CopyInsideOneTransaction ==
    CopyToXet =>
        /\ begins <= 1 /\ ends <= begins
        /\ Cardinality(CallsOf({"begin"})) <= 1 /\ Cardinality(CallsOf({"end"})) <= 1
        /\ (tasks # <<>> => begins = 1)
        /\ (pc = "returned" => begins = 1 /\ ends = 1)
        /\ \A c \in CallsOf({"makedirs", "open_wb", "write", "hint", "cp_file"}) :
              c.fs = XetProto => (c.begins = 1 /\ c.ends = 0)
        /\ (CallsOf({"end"}) # {} => \A t \in 1..Len(tasks) : Terminal(t))

\* the transaction is closed after a worker of a nested _copy wrote to xet
C11_Witness ==
    /\ CopyToXet
    /\ pc = "returned" /\ ends = 1
    /\ \E t \in FileTasks :
          /\ tasks[t].parent > 1
          /\ \E c \in CallsOf({"write"}) : c.path = tasks[t].dst /\ c.fs = XetProto

\* frames of _copy that have run _validate_xet_copy
Validated == {t \in 1..Len(tasks) : tasks[t].kind = "copy" /\ tasks[t].st \notin {"queued", "validate", "validate_dest"}}

\* C12: validation runs once per copy operation, before any transfer, and a
\* validation failure aborts before any item is dispatched or any destination
\* directory is created, glob copies with directory matches included.
C12_ValidatedOnceBeforeWork ==
    op.name = "cp" =>
        /\ Cardinality(Validated) <= 1
        /\ \A t \in 1..Len(tasks) :
              tasks[t].err = "BranchMissing" =>
                  /\ FileTasks = {}
                  /\ CallsOf({"makedirs", "open_wb", "write", "cp_file"}) = {}

\* transfers on the general path whose destination is xet
GeneralToXet ==
    {t \in FileTasks : tasks[t].dfs = XetProto /\ tasks[t].sfs # XetProto /\ ~Protected(tasks[t].dst)}

OpenedForWrite(t) == \E c \in CallsOf({"open_wb"}) : c.path = tasks[t].dst

\* C13: on the general path to xet, a size (the hint given, or the size just
\* queried) of 50,000,000 or more makes exactly one add_deduplication_hints
\* call for the destination path, issued before the destination is opened
\* for write; a smaller or unknown size makes none.
C13_HintAtThreshold ==
    \A t \in GeneralToXet :
        /\ tasks[t].nhint <= 1
        /\ (tasks[t].nhint = 1 <=> \E c \in CallsOf({"hint"}) : c.path = tasks[t].dst)
        /\ (tasks[t].nhint = 1 => (tasks[t].hint # None /\ tasks[t].hint >= 50000000))
        /\ (tasks[t].st = "hint" => (tasks[t].nhint = 0 /\ ~OpenedForWrite(t)))
        /\ (OpenedForWrite(t) =>
               (tasks[t].nhint = 1 <=> (tasks[t].hint # None /\ tasks[t].hint >= 50000000)))

\* both sides of the threshold in one batch: 50,000,000 hinted then opened,
\* 49,999,999 opened without a hint
C13_Witness ==
    \E t \in GeneralToXet, u \in GeneralToXet :
        /\ tasks[t].hint = 50000000 /\ tasks[t].nhint = 1 /\ OpenedForWrite(t)
        /\ tasks[u].hint = 49999999 /\ tasks[u].nhint = 0 /\ OpenedForWrite(u)

\* frames of _copy that enumerate and dispatch (directory or glob mode)
Walkers == {t \in 1..Len(tasks) : tasks[t].kind = "copy" /\ tasks[t].mode # "none"}

\* C14: a directory or glob copy has returned or raised only when every item
\* it dispatched has finished, also when an item raised; and the operation
\* is over only when no item of any level is still running.
C14_ReturnsAfterAllItems ==
    /\ \A t \in Walkers :
          Terminal(t) => \A c \in 1..Len(tasks) : tasks[c].parent = t => Terminal(c)
    /\ (op.name = "cp" /\ Exited) => \A t \in 1..Len(tasks) : Terminal(t)

\* an item has raised and the walker, exception in hand, still waits for a
\* sibling that is running
C14_Witness ==
    \E t \in Walkers :
        /\ tasks[t].st = "shutdown" /\ tasks[t].exc
        /\ \E c \in 1..Len(tasks) :
              tasks[c].parent = t /\ tasks[c].st \in {"open", "stream", "native", "validate"}

\* the source and destination roots of frame t, as _copy normalizes them
SrcRoot(t) == Normalize(_get_fs_and_path(tasks[t].src).path)
DstRoot(t) == Normalize(_get_fs_and_path(tasks[t].dst).path)

\* frames whose source is a directory without wildcard, copied recursively,
\* that have finished enumerating and whose loop was not cut short by a
\* makedirs that raised
RecursiveDirFrames ==
    {t \in 1..Len(tasks) :
        /\ tasks[t].kind = "copy" /\ tasks[t].recursive
        /\ tasks[t].st \in {"join", "shutdown", "done"}
        /\ tasks[t].err \notin WalkErrors
        /\ ~HasStar(SrcRoot(t))
        /\ IsDirWorld(SrcFs(tasks[t]), SrcRoot(t))}

\* files below the source root of frame t
FilesBelow(t) ==
    {e \in Entries(SrcFs(tasks[t])) :
        /\ e.type = "file"
        /\ Len(e.path) > Len(SrcRoot(t)) + 1
        /\ SubSeq(e.path, 1, Len(SrcRoot(t)) + 1) = SrcRoot(t) \o <<"/">>}

\* <dstRoot>/<rel> for the entry <srcRoot>/<rel>
Mirror(t, e) == DstRoot(t) \o SubSeq(e.path, Len(SrcRoot(t)) + 1, Len(e.path))

\* frames that went the xet-to-xet way of lines 200-203: no executor, one
\* cp_file
NativeFrames ==
    {t \in 1..Len(tasks) :
        /\ tasks[t].kind = "copy"
        /\ \A c \in 1..Len(tasks) : tasks[c].parent # t
        /\ \/ tasks[t].st = "native"
           \/ tasks[t].st = "done" /\ tasks[t].mode = "none"
           \/ tasks[t].st = "raised" /\ tasks[t].err = "cp_file"}

\* recursive frames in directory mode, from the moment the source has been
\* found to be a directory and (outside xet to xet) enumerated: in the loop,
\* waiting for the items, leaving, done or raised
DirModeFrames ==
    {t \in 1..Len(tasks) :
        /\ tasks[t].kind = "copy" /\ tasks[t].recursive
        /\ (tasks[t].mode = "dir" \/ t \in NativeFrames)}

\* the entries the loop of frame t has not submitted: the one in hand and
\* those after it
Pending(t) == {tasks[t].items[i].path : i \in 1..Len(tasks[t].items)}

\* the transfers frame t has dispatched for the entry at path
DispatchedFor(t, path) == {c \in FileTasks : tasks[c].parent = t /\ tasks[c].src = path}

\* at this point of frame t: each file below the source root that the loop
\* has passed has exactly one transfer, to the mirrored path, and the others
\* have none yet
MirroredSoFar(t) ==
    \A e \in FilesBelow(t) :
        /\ Cardinality(DispatchedFor(t, e.path)) = (IF e.path \in Pending(t) THEN 0 ELSE 1)
        /\ \A c \in DispatchedFor(t, e.path) : tasks[c].dst = Mirror(t, e)

\* at this point of frame t: the makedirs of the parent directory has been
\* issued for every transfer that exists, whatever the transfer has done so
\* far.  The predicate is an invariant of every state from the first turn of
\* the loop on, so a transfer that is there (and so any open for write)
\* before the makedirs of its parent directory violates it.
ParentDirFirst(t) ==
    \A c \in FileTasks :
        tasks[c].parent = t =>
            \E m \in CallsOf({"makedirs"}) :
                m.fs = tasks[c].dfs /\ m.path = DirName(tasks[c].dst)

Mirrored(t) == MirroredSoFar(t) /\ ParentDirFirst(t)

\* C15 as claimed: at every point of a recursive directory-mode copy, each
\* file below the source root that the loop has passed has exactly one
\* transfer, to the mirrored path (every file once the loop is over), and no
\* transfer exists, let alone has opened its destination, before the makedirs
\* of its parent directory.
C15_DirectoryCopyMirrorsTree ==
    \A t \in DirModeFrames : Mirrored(t)

\* C15 as amended: the same, unless source and destination are both xet;
\* then the directory goes in one cp_file(srcRoot, dstRoot) and no transfer
\* is dispatched per entry.
C15_DirectoryCopyMirrorsTreeUnlessNative ==
    \A t \in DirModeFrames :
        IF SrcFs(tasks[t]) = XetProto /\ DestFs(tasks[t]) = XetProto
        THEN /\ t \in NativeFrames
             /\ (tasks[t].st # "native" =>
                    \E c \in CallsOf({"cp_file"}) : c.path = SrcRoot(t) /\ c.to = DstRoot(t))
        ELSE Mirrored(t)

\* a tree copy is done: s/y went to <dstRoot>/s/y, opened after makedirs
C15_Witness ==
    \E t \in DirModeFrames :
        /\ tasks[t].st = "done"
        /\ \E c \in FileTasks :
              /\ tasks[c].parent = t
              /\ LastSeg(tasks[c].src) = <<"y">>
              /\ tasks[c].dst = DstRoot(t) \o <<"/", "s", "/", "y">>
              /\ OpenedForWrite(c)

\* C16: in a recursive directory-mode copy an enumerated entry of type
\* directory is never dispatched as a transfer, and once the copy is done
\* makedirs has been issued for the mirrored directory itself.
C16_DirectoryEntriesOnlyCreateDirectories ==
    \A t \in RecursiveDirFrames :
        tasks[t].mode = "dir" =>
            /\ \A c \in FileTasks :
                  tasks[c].parent = t => ~IsDirWorld(tasks[c].sfs, tasks[c].src)
            /\ tasks[t].st = "done" =>
                  \A e \in Entries(SrcFs(tasks[t])) :
                      ( /\ e.type = "directory"
                        /\ Len(e.path) > Len(SrcRoot(t)) + 1
                        /\ SubSeq(e.path, 1, Len(SrcRoot(t)) + 1) = SrcRoot(t) \o <<"/">> )
                      => \E m \in CallsOf({"makedirs"}) : m.path = Mirror(t, e)

\* C17: the destination _root_copy hands to _copy is the destination
\* directory joined with the final path segment of the source (trailing
\* slashes of the source aside) when the destination is an existing directory
\* and the source has no wildcard, and the destination unchanged otherwise.
C17_CopyIntoDirectoryAppendsSourceName ==
    (op.name = "cp" /\ Len(tasks) >= 1) =>
        LET d == _get_fs_and_path(op.target)
        IN  tasks[1].dst =
                IF IsDirWorld(d.fs, d.path) /\ ~HasStar(op.source)
                THEN RStrip(op.target) \o <<"/">> \o LastSeg(RStrip(op.source))
                ELSE op.target

\* C20: every transfer a copy dispatches takes its permit from the semaphore
\* that was passed to the copy as max_concurrent_copies.
C20_TransfersUsePassedPool ==
    op.name = "cp" => \A t \in FileTasks : tasks[t].pool = op.pool

\* x is a literal prefix of p
IsLiteralPrefix(x, p) ==
    /\ Len(x) <= Len(p)
    /\ \A i \in 1..Len(x) : p[i] = x[i]

\* C18: _ltrim_match(p, x) fails with the path-mismatch error when x is not
\* a literal prefix of p (p shorter than x included), and otherwise returns
\* r with x followed by r equal to p.
C18_TrimPrefix ==
    (op.name = "trim" /\ pc = "returned") =>
        IF IsLiteralPrefix(op.target, op.source)
        THEN ret # PathMismatch /\ op.target \o ret = op.source
        ELSE ret = PathMismatch

\* "a/" trimmed from "a/b" left "b"
C18_Witness ==
    /\ op.name = "trim" /\ pc = "returned"
    /\ op.source = <<"a", "/", "b">> /\ op.target = <<"a", "/">>
    /\ ret = <<"b">>

\* C19: under FairSpec every copy operation comes to its end: its caller has
\* control back and every item it dispatched has finished, with nested glob
\* and directory recursion, with transfers queueing for permits and with
\* items queueing for the workers of a full pool.
C19_CopyTerminates ==
    (op.name = "cp") ~> (Exited /\ \A t \in 1..Len(tasks) : Terminal(t))

\* every worker of a glob walker's pool is busy, all but one at most with a
\* nested directory copy, and a further nested copy waits for a worker
C19_Witness ==
    \E t \in Walkers :
        /\ tasks[t].mode = "glob"
        /\ Cardinality(Running(t)) = PoolSize
        /\ Cardinality({c \in Running(t) : tasks[c].kind = "copy"}) >= PoolSize - 1
        /\ \E c \in 1..Len(tasks) :
              tasks[c].parent = t /\ tasks[c].kind = "copy" /\ tasks[c].st = "queued"

====
